---- MODULE Spec2Model ----
(***************************************************************************)
(* A model of the grep-like regular expression engine of src/main.rs:      *)
(* Pattern::parse / Regex::parse (the compiler) and Regex::matches,        *)
(* match_, match_here, match_one_or_more, match_zero_or_one and            *)
(* match_alternatives (the backtracking matcher).                          *)
(*                                                                         *)
(* Text is a sequence of one-character strings.  A Rust slice s[a..b]      *)
(* (0-based, end exclusive) is SubSeq(s, a+1, b).  A panic (an out-of-     *)
(* range slice, unreachable!()) is a result of its own, propagated to the  *)
(* caller as Rust's unwinding does.                                        *)
(***************************************************************************)
EXTENDS Naturals, Sequences, FiniteSets

VARIABLES
    regex_str,   \* the pattern argument of match_pattern
    input_line,  \* the subject argument of match_pattern
    regex,       \* the Result of Regex::parse(regex_str)
    input,       \* the loop variable `input` of match_
    result,      \* what match_pattern ends with
    pc,          \* where the call of match_pattern is
    stack,       \* the call stack of the matcher, innermost call last
    ret          \* the value the innermost call was just handed back

vars == <<regex_str, input_line, regex, input, result, pc, stack, ret>>

----------------------------------------------------------------------------
(* Bounds of the model and the alphabets the inputs are drawn from.        *)

MaxPatLen == 3

MaxSubjLen == 2

\* Characters of the exhaustively enumerated patterns: two literals (which
\* are also the escape letters), and every metacharacter of the grammar.
PatChars == {"d", "w", "^", "$", "+", "?", ".", "(", "|", ")", "[", "]", "\\"}

\* Characters of the enumerated subjects: a letter, a digit, a symbol.
SubjChars == {"d", "1", "+"}

NonAsciiChar == "é"

SeqsUpTo(S, n) == UNION {[1..k -> S] : k \in 0..n}

\* Longer patterns, beyond the exhaustive length: the pattern of tests::parse,
\* and nested combinations of groups, sets, classes and quantifiers.
SamplePatterns ==
    { <<"^", "[", "^", "a", "b", "c", "]", "\\", "w", "?", "f", "+", "o", "o",
        "\\", "d", "+", "[", "b", "a", "r", "]", "+", "(", "c", "a", "|", "d", ")", "$">>,
      <<"(", "d", "+", "|", "\\", "d", "?", ")">>,
      <<"(", "[", "d", "]", "+", "|", "[", "^", "d", "]", "?", "|", "\\", "w", "+", ")">>,
      <<"d", "+", "(", "d", "$", "1", "|", "1", ")">>,
      <<"(", "d", "|", "1", ")", "(", "1", "|", "+", ")">>,
      <<"\\", "\\", "z">>,
      <<"d", "+", "(", "w", "|", "[", "d", ")">>,
      <<"d", NonAsciiChar>> }

SampleSubjects ==
    { <<"d", "d", "1">>, <<"1", "d", "1", "+">>, <<"d", NonAsciiChar>> }

Patterns == SeqsUpTo(PatChars, MaxPatLen) \cup SamplePatterns

\* The characters that decide the matcher's control flow: a literal, the
\* wildcard, the anchors, the quantifiers and the group.  Sets and classes
\* are further one-character atoms; SamplePatterns has them.
RunPatChars == {"d", "^", "$", "+", "?", ".", "(", "|", ")"}

RunPatterns == SeqsUpTo(RunPatChars, MaxPatLen) \cup SamplePatterns

Subjects == SeqsUpTo(SubjChars, MaxSubjLen) \cup SampleSubjects

----------------------------------------------------------------------------
(* Characters.                                                             *)

Digits == {"0", "1", "2", "3", "4", "5", "6", "7", "8", "9"}

Letters ==
    {"a", "b", "c", "d", "e", "f", "g", "h", "i", "j", "k", "l", "m",
     "n", "o", "p", "q", "r", "s", "t", "u", "v", "w", "x", "y", "z",
     "A", "B", "C", "D", "E", "F", "G", "H", "I", "J", "K", "L", "M",
     "N", "O", "P", "Q", "R", "S", "T", "U", "V", "W", "X", "Y", "Z"}

is_ascii(ch) == ch # NonAsciiChar

is_ascii_digit(ch) == ch \in Digits

is_ascii_alphanumeric(ch) == ch \in Digits \cup Letters

\* str::contains(char)
contains(chars, ch) == \E i \in 1..Len(chars) : chars[i] = ch

\* s[n..]: panics when n > len (never the case where the parser uses it)
From(s, n) == SubSeq(s, n + 1, Len(s))

\* s.chars().nth(n) == Some(ch)
NthIs(s, n, ch) == Len(s) > n /\ s[n + 1] = ch

----------------------------------------------------------------------------
(* enum Pattern.  Every element has the same fields; the ones a variant    *)
(* does not carry are empty.                                               *)

Elt(tag, ch, chars, inner, alternatives) ==
    [tag |-> tag, ch |-> ch, chars |-> chars, inner |-> inner,
     alternatives |-> alternatives]

Character(ch) == Elt("Character", ch, <<>>, <<>>, <<>>)
Digit == Elt("Digit", "", <<>>, <<>>, <<>>)
Alphanumeric == Elt("Alphanumeric", "", <<>>, <<>>, <<>>)
PositiveGroup(chars) == Elt("PositiveGroup", "", chars, <<>>, <<>>)
NegativeGroup(chars) == Elt("NegativeGroup", "", chars, <<>>, <<>>)
Start == Elt("Start", "", <<>>, <<>>, <<>>)
End == Elt("End", "", <<>>, <<>>, <<>>)
\* Box<Pattern>: the one boxed element, as a sequence of length 1
OneOrMore(p) == Elt("OneOrMore", "", <<>>, <<p>>, <<>>)
ZeroOrOne(p) == Elt("ZeroOrOne", "", <<>>, <<p>>, <<>>)
Wildcard == Elt("Wildcard", "", <<>>, <<>>, <<>>)
Alternation(alternatives) == Elt("Alternation", "", <<>>, <<>>, alternatives)

----------------------------------------------------------------------------
(* The compiler.                                                           *)

\* Result<(&str, Pattern)>: err = "" is Ok((rest, pattern))
ParseOk(rest, pattern) == [err |-> "", rest |-> rest, pattern |-> pattern]
ParseErr(msg) == [err |-> msg, rest |-> <<>>, pattern |-> Start]

\* Result<Regex>: err = "" is Ok(Regex { patterns })
RegexOk(patterns) == [err |-> "", patterns |-> patterns]
RegexErr(msg) == [err |-> msg, patterns |-> <<>>]

\* A mutant of Quantified: the two quantifiers exchanged
QuantifiedSwapped(s, at, atom) ==
    IF NthIs(s, at, "+") THEN ParseOk(From(s, at + 1), ZeroOrOne(atom))
    ELSE IF NthIs(s, at, "?") THEN ParseOk(From(s, at + 1), OneOrMore(atom))
    ELSE ParseOk(From(s, at), atom)

\* A following '+' or '?' wraps the atom; `at` is the 0-based index of the
\* character after the atom.
Quantified(s, at, atom) ==
    IF NthIs(s, at, "+") THEN ParseOk(From(s, at + 1), OneOrMore(atom))
    ELSE IF NthIs(s, at, "?") THEN ParseOk(From(s, at + 1), ZeroOrOne(atom))
    ELSE ParseOk(From(s, at), atom)

\* The loop of the character group: the number of characters before the
\* first ']' of rest, or Len(rest) + 1 when the iterator ends without one.
RECURSIVE GroupScan(_, _)
GroupScan(rest, i) ==
    IF i >= Len(rest) THEN Len(rest) + 1
    ELSE IF rest[i + 1] = "]" THEN i
    ELSE GroupScan(rest, i + 1)

ParseGroup(s) ==
    LET is_negative == NthIs(s, 1, "^")
        rest == IF is_negative THEN From(s, 2) ELSE From(s, 1)
        i == GroupScan(rest, 0)
    IN  IF i > Len(rest) THEN ParseErr("premature end of character group")
        ELSE LET inner_pattern == IF is_negative
                                  THEN NegativeGroup(SubSeq(rest, 1, i))
                                  ELSE PositiveGroup(SubSeq(rest, 1, i))
             IN  Quantified(rest, i + 1, inner_pattern)

\* A mutant of ParseEscape: an unknown escape is the escaped character
ParseEscapeLenient(s) ==
    IF NthIs(s, 1, "d") THEN Quantified(s, 2, Digit)
    ELSE IF NthIs(s, 1, "w") THEN Quantified(s, 2, Alphanumeric)
    ELSE IF Len(s) > 1 THEN ParseOk(From(s, 2), Character(s[2]))
    ELSE ParseErr("unhandled pattern")

ParseEscape(s) ==
    IF NthIs(s, 1, "d") THEN Quantified(s, 2, Digit)
    ELSE IF NthIs(s, 1, "w") THEN Quantified(s, 2, Alphanumeric)
    ELSE IF Len(s) > 1 /\ s[2] \in {"\\", "$", "^", "+", "?", "."}
         THEN ParseOk(From(s, 2), Character(s[2]))
    ELSE ParseErr("unhandled pattern")

RECURSIVE PatternParse(_), RegexParse(_), ParseAlternation(_, _, _, _)

\* The loop of the alternation group.  The iterator `chars` has yielded
\* current_pos characters at the head of every iteration (both advance by
\* one in every arm that does not leave the loop).
ParseAlternation(s, current_pos, start_of_current_alternative, alternatives) ==
    IF current_pos >= Len(s) THEN ParseErr("premature end of alternation group")
    ELSE IF s[current_pos + 1] \in {"|", ")"}
    THEN LET sub == RegexParse(
                        SubSeq(s, start_of_current_alternative + 1, current_pos))
         IN  IF sub.err # "" THEN ParseErr(sub.err)
             ELSE IF s[current_pos + 1] = "|"
             THEN ParseAlternation(s, current_pos + 1, current_pos + 1,
                                   Append(alternatives, sub.patterns))
             ELSE ParseOk(From(s, current_pos + 1),
                          Alternation(Append(alternatives, sub.patterns)))
    ELSE ParseAlternation(s, current_pos + 1, start_of_current_alternative,
                          alternatives)

\* Pattern::parse; the input is not empty
PatternParse(s) ==
    LET ch == s[1] IN
    CASE ch = "^" -> ParseOk(From(s, 1), Start)
      [] ch = "$" -> ParseOk(From(s, 1), End)
      [] ch = "(" -> ParseAlternation(s, 0, 1, <<>>)
      [] ch = "[" -> ParseGroup(s)
      [] ch = "\\" -> ParseEscape(s)
      [] ch = "." -> ParseOk(From(s, 1), Wildcard)
      [] OTHER -> Quantified(s, 1, Character(ch))

\* The while loop of Regex::parse
RECURSIVE RegexParseLoop(_, _)
RegexParseLoop(rest, patterns) ==
    IF rest = <<>> THEN RegexOk(patterns)
    ELSE LET r == PatternParse(rest)
         IN  IF r.err # "" THEN RegexErr(r.err)
             ELSE RegexParseLoop(r.rest, Append(patterns, r.pattern))

\* Regex::parse
RegexParse(s) ==
    IF \E i \in 1..Len(s) : ~is_ascii(s[i])
    THEN RegexErr("non-ascii character in pattern")
    ELSE RegexParseLoop(s, <<>>)

----------------------------------------------------------------------------
(* The matcher.  A call returns "true" or "false", or panics.              *)

PanicUnreachable == "panic: unreachable"

PanicSlice == "panic: slice index out of range"

IsPanic(r) == r \in {PanicUnreachable, PanicSlice}

Bool(b) == IF b THEN "true" ELSE "false"

\* Pattern::matches
PatternMatches(pattern, ch) ==
    CASE pattern.tag = "Character" -> Bool(pattern.ch = ch)
      [] pattern.tag = "Digit" -> Bool(is_ascii_digit(ch))
      [] pattern.tag = "Alphanumeric" -> Bool(is_ascii_alphanumeric(ch))
      [] pattern.tag = "PositiveGroup" -> Bool(contains(pattern.chars, ch))
      [] pattern.tag = "NegativeGroup" -> Bool(~contains(pattern.chars, ch))
      [] pattern.tag = "Wildcard" -> "true"
      [] OTHER -> PanicUnreachable

\* A mutant of StartsWithStart: the anchor goes unnoticed
StartsWithStartNever(patterns) == FALSE

\* patterns.get(0) == Some(&Pattern::Start)
StartsWithStart(patterns) == patterns # <<>> /\ patterns[1] = Start

RECURSIVE match_here(_, _), match_one_or_more(_, _, _),
          match_zero_or_one(_, _, _), match_alternatives(_, _, _)

\* Regex::match_here
match_here(inp, patterns) ==
    IF patterns = <<>> THEN "true"
    ELSE LET pattern == patterns[1] IN
         CASE pattern.tag = "OneOrMore" ->
                  match_one_or_more(inp, pattern.inner[1], Tail(patterns))
           [] pattern.tag = "ZeroOrOne" ->
                  match_zero_or_one(inp, pattern.inner[1], Tail(patterns))
           [] pattern.tag = "Alternation" ->
                  match_alternatives(inp, pattern.alternatives, Tail(patterns))
           [] pattern.tag = "End" /\ Len(patterns) = 1 -> Bool(inp = <<>>)
           [] pattern.tag = "Character" /\ inp # <<>> /\ inp[1] = pattern.ch ->
                  match_here(Tail(inp), Tail(patterns))
           [] OTHER ->
                  IF inp # <<>>
                  THEN LET m == PatternMatches(pattern, inp[1])
                       IN  IF m = "true" THEN match_here(Tail(inp), Tail(patterns))
                           ELSE m
                  ELSE "false"

\* Regex::match_one_or_more: one iteration of the while loop, then the rest
\* of the loop on the advanced input
match_one_or_more(inp, inner_pattern, next_patterns) ==
    IF inp = <<>> THEN "false"
    ELSE LET m == PatternMatches(inner_pattern, inp[1])
         IN  IF m # "true" THEN m
             ELSE LET r == match_here(Tail(inp), next_patterns)
                  IN  IF r # "false" THEN r
                      ELSE match_one_or_more(Tail(inp), inner_pattern, next_patterns)

\* Regex::match_zero_or_one
match_zero_or_one(inp, inner_pattern, next_patterns) ==
    LET r == match_here(inp, next_patterns)
    IN  IF r # "false" THEN r
        ELSE IF inp = <<>> THEN "false"
        ELSE LET m == PatternMatches(inner_pattern, inp[1])
             IN  IF m = "true" THEN match_here(Tail(inp), next_patterns)
                 ELSE m

\* Regex::match_alternatives: the first alternative, then the rest of the
\* for loop
match_alternatives(inp, alternatives, next_patterns) ==
    IF alternatives = <<>> THEN "false"
    ELSE LET alternative_patterns == alternatives[1] \o next_patterns
             r == match_here(inp, alternative_patterns)
         IN  IF r # "false" THEN r
             ELSE match_alternatives(inp, Tail(alternatives), next_patterns)

----------------------------------------------------------------------------
(* match_pattern(input_line, regex_str), one call: compile, then match.    *)
(* The loop of match_ takes one step per iteration.                        *)

Init ==
    /\ regex_str \in Patterns
    /\ input_line = <<>>
    /\ regex = RegexOk(<<>>)
    /\ input = <<>>
    /\ result = "none"
    /\ pc = "start"
    /\ stack = <<>>
    /\ ret = "none"

\* Regex::parse(regex_str)?
Parse ==
    /\ pc = "start"
    /\ regex' = RegexParse(regex_str)
    /\ IF regex'.err # ""
       THEN result' = "error" /\ pc' = "done"
       ELSE result' = result /\ pc' = "parsed"
    /\ UNCHANGED <<regex_str, input_line, input, stack, ret>>

\* regex.matches(input_line), up to the first iteration of match_'s loop
Matches ==
    /\ pc = "parsed"
    /\ \E line \in Subjects :
        /\ input_line' = line
        /\ IF \E i \in 1..Len(line) : ~is_ascii(line[i])
           THEN result' = "error" /\ pc' = "done" /\ input' = input
           ELSE IF StartsWithStart(regex.patterns)
           THEN /\ result' = match_here(line, Tail(regex.patterns))
                /\ pc' = "done"
                /\ input' = input
           ELSE /\ input' = line
                /\ pc' = "match_"
                /\ result' = result
    /\ UNCHANGED <<regex_str, regex, stack, ret>>

\* One iteration of the loop of match_
MatchLoop ==
    /\ pc = "match_"
    /\ LET r == match_here(input, regex.patterns) IN
       IF r # "false"
       THEN result' = r /\ pc' = "done" /\ input' = input
       ELSE IF input = <<>>
       THEN result' = PanicSlice /\ pc' = "done" /\ input' = input
       ELSE /\ input' = Tail(input)
            /\ IF input' = <<>>
               THEN result' = "false" /\ pc' = "done"
               ELSE result' = result /\ pc' = "match_"
    /\ UNCHANGED <<regex_str, input_line, regex, stack, ret>>

Next == Parse \/ Matches \/ MatchLoop

Spec == Init /\ [][Next]_vars

----------------------------------------------------------------------------
(* The same call, one step per call, return and loop iteration of the      *)
(* matcher: the recursion of match_, match_here, match_one_or_more,        *)
(* match_zero_or_one and match_alternatives on an explicit call stack.     *)

\* A call in progress: the function, where it is in its body, and its
\* arguments and loop variables.  `alternatives` is what the for loop of
\* match_alternatives has not yet visited.
Frame(fn, at, inp, patterns, inner, alternatives) ==
    [fn |-> fn, at |-> at, input |-> inp, patterns |-> patterns,
     inner |-> inner, alternatives |-> alternatives]

NoFrame == Frame("", "", <<>>, <<>>, <<>>, <<>>)

CallHere(inp, patterns) == Frame("match_here", "entry", inp, patterns, <<>>, <<>>)

\* What one step of a function does: it returns a value, calls (keeping its
\* own frame, updated, below the callee's), or panics
Return(value) == [kind |-> "return", value |-> value, self |-> NoFrame, callee |-> NoFrame]
Call(self, callee) == [kind |-> "call", value |-> "none", self |-> self, callee |-> callee]
Panic(value) == [kind |-> "panic", value |-> value, self |-> NoFrame, callee |-> NoFrame]

\* `return self.f(...)`: call, and hand the callee's value on
TailCall(f, callee) == Call([f EXCEPT !.at = "tail"], callee)

\* Regex::match_
match__step(f, r) ==
    CASE f.at = "entry" ->
            IF StartsWithStart(f.patterns)
            THEN TailCall(f, CallHere(f.input, Tail(f.patterns)))
            ELSE Call([f EXCEPT !.at = "loop"], CallHere(f.input, f.patterns))
      [] f.at = "tail" -> Return(r)
      [] f.at = "loop" ->
            IF r = "true" THEN Return("true")
            ELSE IF f.input = <<>> THEN Panic(PanicSlice)
            ELSE IF Tail(f.input) = <<>> THEN Return("false")
            ELSE Call([f EXCEPT !.input = Tail(f.input)],
                      CallHere(Tail(f.input), f.patterns))

\* Regex::match_here
match_here_step(f, r) ==
    IF f.at = "tail" THEN Return(r)
    ELSE IF f.patterns = <<>> THEN Return("true")
    ELSE LET pattern == f.patterns[1]
             next == Tail(f.patterns)
         IN
         CASE pattern.tag = "OneOrMore" ->
                  TailCall(f, Frame("match_one_or_more", "entry", f.input, next,
                                    pattern.inner, <<>>))
           [] pattern.tag = "ZeroOrOne" ->
                  TailCall(f, Frame("match_zero_or_one", "entry", f.input, next,
                                    pattern.inner, <<>>))
           [] pattern.tag = "Alternation" ->
                  TailCall(f, Frame("match_alternatives", "entry", f.input, next,
                                    <<>>, pattern.alternatives))
           [] pattern.tag = "End" /\ next = <<>> -> Return(Bool(f.input = <<>>))
           [] pattern.tag = "Character" /\ f.input # <<>> /\ f.input[1] = pattern.ch ->
                  TailCall(f, CallHere(Tail(f.input), next))
           [] OTHER ->
                  IF f.input = <<>> THEN Return("false")
                  ELSE LET m == PatternMatches(pattern, f.input[1])
                       IN  IF m = "true" THEN TailCall(f, CallHere(Tail(f.input), next))
                           ELSE IF IsPanic(m) THEN Panic(m)
                           ELSE Return("false")

\* A mutant of one_or_more_loop: the loop variable is not advanced
one_or_more_loop_stuck(f) ==
    IF f.input = <<>> THEN Return("false")
    ELSE LET m == PatternMatches(f.inner[1], f.input[1])
         IN  IF m = "true"
             THEN Call([f EXCEPT !.at = "loop"], CallHere(Tail(f.input), f.patterns))
             ELSE IF IsPanic(m) THEN Panic(m)
             ELSE Return("false")

\* The head of the while loop of match_one_or_more
one_or_more_loop(f) ==
    IF f.input = <<>> THEN Return("false")
    ELSE LET m == PatternMatches(f.inner[1], f.input[1])
         IN  IF m = "true"
             THEN Call([f EXCEPT !.at = "loop", !.input = Tail(f.input)],
                       CallHere(Tail(f.input), f.patterns))
             ELSE IF IsPanic(m) THEN Panic(m)
             ELSE Return("false")

\* Regex::match_one_or_more
match_one_or_more_step(f, r) ==
    IF f.at = "loop" /\ r = "true" THEN Return("true") ELSE one_or_more_loop(f)

\* Regex::match_zero_or_one
match_zero_or_one_step(f, r) ==
    CASE f.at = "entry" -> Call([f EXCEPT !.at = "zero"], CallHere(f.input, f.patterns))
      [] f.at = "zero" ->
            IF r = "true" THEN Return("true")
            ELSE IF f.input = <<>> THEN Return("false")
            ELSE LET m == PatternMatches(f.inner[1], f.input[1])
                 IN  IF m = "true" THEN TailCall(f, CallHere(Tail(f.input), f.patterns))
                     ELSE IF IsPanic(m) THEN Panic(m)
                     ELSE Return("false")
      [] f.at = "tail" -> Return(r)

\* The head of the for loop of match_alternatives
alternatives_loop(f) ==
    IF f.alternatives = <<>> THEN Return("false")
    ELSE Call([f EXCEPT !.at = "loop", !.alternatives = Tail(f.alternatives)],
              CallHere(f.input, f.alternatives[1] \o f.patterns))

\* Regex::match_alternatives
match_alternatives_step(f, r) ==
    IF f.at = "loop" /\ r = "true" THEN Return("true") ELSE alternatives_loop(f)

Top == stack[Len(stack)]

\* The effect of a step on the stack; a panic unwinds all of it, and the
\* value the outermost call returns is Regex::matches' Ok(value)
Apply(e) ==
    CASE e.kind = "call" ->
            /\ stack' = SubSeq(stack, 1, Len(stack) - 1) \o <<e.self, e.callee>>
            /\ ret' = "none"
            /\ UNCHANGED <<result, pc>>
      [] e.kind = "return" /\ Len(stack) > 1 ->
            /\ stack' = SubSeq(stack, 1, Len(stack) - 1)
            /\ ret' = e.value
            /\ UNCHANGED <<result, pc>>
      [] OTHER ->
            /\ stack' = <<>>
            /\ ret' = "none"
            /\ result' = e.value
            /\ pc' = "done"

InitRun ==
    /\ regex_str \in RunPatterns
    /\ input_line = <<>>
    /\ regex = RegexOk(<<>>)
    /\ input = <<>>
    /\ result = "none"
    /\ pc = "start"
    /\ stack = <<>>
    /\ ret = "none"

\* regex.matches(input_line), up to the call of match_
CallMatches ==
    /\ pc = "parsed"
    /\ \E line \in Subjects :
        /\ input_line' = line
        /\ IF \E i \in 1..Len(line) : ~is_ascii(line[i])
           THEN result' = "error" /\ pc' = "done" /\ stack' = stack
           ELSE /\ stack' = <<Frame("match_", "entry", line, regex.patterns, <<>>, <<>>)>>
                /\ pc' = "running"
                /\ result' = result
    /\ UNCHANGED <<regex_str, regex, input, ret>>

Running(fn) == pc = "running" /\ Top.fn = fn

Run_match_ ==
    /\ Running("match_")
    /\ Apply(match__step(Top, ret))
    /\ UNCHANGED <<regex_str, input_line, regex, input>>

Run_match_here ==
    /\ Running("match_here")
    /\ Apply(match_here_step(Top, ret))
    /\ UNCHANGED <<regex_str, input_line, regex, input>>

Run_match_one_or_more ==
    /\ Running("match_one_or_more")
    /\ Apply(match_one_or_more_step(Top, ret))
    /\ UNCHANGED <<regex_str, input_line, regex, input>>

Run_match_zero_or_one ==
    /\ Running("match_zero_or_one")
    /\ Apply(match_zero_or_one_step(Top, ret))
    /\ UNCHANGED <<regex_str, input_line, regex, input>>

Run_match_alternatives ==
    /\ Running("match_alternatives")
    /\ Apply(match_alternatives_step(Top, ret))
    /\ UNCHANGED <<regex_str, input_line, regex, input>>

\* A step of the matcher
RunMatcher ==
    \/ Run_match_
    \/ Run_match_here
    \/ Run_match_one_or_more
    \/ Run_match_zero_or_one
    \/ Run_match_alternatives

NextRun == Parse \/ CallMatches \/ RunMatcher

\* The matcher is sequential code that runs on once called: a step it can
\* take, it takes
SpecRun == InitRun /\ [][NextRun]_vars /\ WF_vars(RunMatcher)

----------------------------------------------------------------------------
(* Vocabulary of the properties.                                           *)

Compiled == pc # "start" /\ regex.err = ""

AsciiLine == \A i \in 1..Len(input_line) : is_ascii(input_line[i])

\* A finished call of match_pattern whose pattern compiled and whose
\* subject line is ASCII
Matched == pc = "done" /\ regex.err = "" /\ AsciiLine

Anchored == regex.patterns # <<>> /\ regex.patterns[1] = Start

Suffixes(s) == {From(s, k) : k \in 0..Len(s)}

\* The element sequences match_here is called with: the program (without a
\* leading Start), the expansion of each of its alternation branches, and
\* their suffixes
Expansions(patterns) ==
    UNION {{patterns[i].alternatives[j] \o From(patterns, i) :
                j \in 1..Len(patterns[i].alternatives)} :
           i \in {k \in 1..Len(patterns) : patterns[k].tag = "Alternation"}}

HereSeqs(patterns) ==
    LET top == IF patterns # <<>> /\ patterns[1] = Start
               THEN Tail(patterns) ELSE patterns
    IN  Suffixes(top) \cup UNION {Suffixes(e) : e \in Expansions(top)}

Atoms == {"Character", "Digit", "Alphanumeric", "PositiveGroup", "NegativeGroup"}

\* The predicate of a single-character atom, as the specification words it
Satisfies(atom, ch) ==
    CASE atom.tag = "Character" -> ch = atom.ch
      [] atom.tag = "Digit" -> ch \in Digits
      [] atom.tag = "Alphanumeric" -> ch \in Digits \cup Letters
      [] atom.tag = "PositiveGroup" -> ch \in {atom.chars[i] : i \in 1..Len(atom.chars)}
      [] atom.tag = "NegativeGroup" -> ch \notin {atom.chars[i] : i \in 1..Len(atom.chars)}

----------------------------------------------------------------------------
\* C1: for every compiled Program and every ASCII subject line, the empty
\* line included, Regex::matches returns Ok(true) or Ok(false); it never
\* returns an error and never panics.
C1_MatchesReturnsBoolean ==
    Matched => result \in {"true", "false"}

\* C2: when the Program does not begin with Start, match_ returns true iff
\* match_here succeeds at some offset i, 0 <= i <= len(s), of the subject
\* (stated of the calls that return).
C2_SearchTriesEveryOffset ==
    (Matched /\ ~Anchored /\ result \in {"true", "false"}) =>
        (result = "true" <=>
            \E i \in 0..Len(input_line) :
                match_here(From(input_line, i), regex.patterns) = "true")

\* C3: when the Program begins with Start, the call finishes in the one step
\* that runs match_here on the whole subject against the elements after the
\* anchor, and its result is that call's; the loop over later offsets is
\* never entered.
C3_AnchoredMatchesOnlyAtStart ==
    [][(pc = "parsed" /\ Anchored) =>
            /\ pc' = "done"
            /\ input' = input
            /\ AsciiLine' => result' = match_here(input_line', Tail(regex.patterns))]_vars

\* C3's case: an anchored pattern fails on a subject although the rest of
\* the pattern matches at a later offset
C3_Witness ==
    /\ Matched /\ Anchored /\ result = "false"
    /\ \E i \in 1..Len(input_line) :
          match_here(From(input_line, i), Tail(regex.patterns)) = "true"

\* C4: a pattern compiled to one single-character atom matches a subject,
\* the empty one included, iff some character of the subject satisfies the
\* atom's predicate.
C4_SingleAtomIsContainment ==
    (Matched /\ Len(regex.patterns) = 1 /\ regex.patterns[1].tag \in Atoms) =>
        result = Bool(\E i \in 1..Len(input_line) :
                          Satisfies(regex.patterns[1], input_line[i]))

\* C5: where match_here meets an End that is not the last element of its
\* sequence, or a Start, it returns false, whatever the remaining subject.
Misplaced(q) == q # <<>> /\ (q[1] = Start \/ (q[1] = End /\ Len(q) > 1))

C5_MisplacedAnchorFails ==
    Matched =>
        \A q \in HereSeqs(regex.patterns) : \A s \in Suffixes(input_line) :
            Misplaced(q) => match_here(s, q) = "false"

\* The characters a backslash may precede
Escapable == {"d", "w", "\\", "$", "^", "+", "?", "."}

HasLater(s, i, ch) == \E j \in (i + 1)..Len(s) : s[j] = ch

\* The text of a group's branches: what lies between its parentheses, cut
\* at every '|'
RECURSIVE SplitBar(_)
SplitBar(s) ==
    IF \E i \in 1..Len(s) : s[i] = "|"
    THEN LET i == CHOOSE k \in 1..Len(s) :
                      s[k] = "|" /\ \A j \in 1..(k - 1) : s[j] # "|"
         IN  <<SubSeq(s, 1, i - 1)>> \o SplitBar(From(s, i))
    ELSE <<s>>

\* The group that begins s ends at the first ')'
GroupBranches(s) ==
    LET close == CHOOSE k \in 1..Len(s) :
                     s[k] = ")" /\ \A j \in 1..(k - 1) : s[j] # ")"
    IN  SplitBar(SubSeq(s, 2, close - 1))

\* C6 as claimed: the pattern holds, anywhere, a '[' with no later ']', a
\* '(' with no later ')', or a '\' not followed by an escapable character
MalformedAnywhere(s) ==
    \E i \in 1..Len(s) :
        \/ s[i] = "[" /\ ~HasLater(s, i, "]")
        \/ s[i] = "(" /\ ~HasLater(s, i, ")")
        \/ s[i] = "\\" /\ (i = Len(s) \/ s[i + 1] \notin Escapable)

\* C6 (as claimed): a pattern with such a construct anywhere in it does not
\* compile.
C6_MalformedAnywhereFails ==
    (pc # "start" /\ MalformedAnywhere(regex_str)) => regex.err # ""

\* The same constructs where an element begins: after a prefix that
\* compiles, or, in the same way, within a branch of a group that begins
\* there
RECURSIVE MalformedElement(_)
MalformedElement(s) ==
    \E k \in 0..(Len(s) - 1) :
        /\ RegexParse(SubSeq(s, 1, k)).err = ""
        /\ LET q == From(s, k) IN
           \/ q[1] = "[" /\ ~HasLater(q, 1, "]")
           \/ q[1] = "(" /\ ~HasLater(q, 1, ")")
           \/ q[1] = "\\" /\ (Len(q) = 1 \/ q[2] \notin Escapable)
           \/ /\ q[1] = "(" /\ HasLater(q, 1, ")")
              /\ \E b \in {GroupBranches(q)[j] : j \in 1..Len(GroupBranches(q))} :
                     MalformedElement(b)

\* C6 (amended): Regex::parse returns an error, and match_pattern ends with
\* it, whenever an element of the pattern, after any number of well-formed
\* elements or inside an alternation branch, begins with a '[' that has no
\* later ']', a '(' that has no later ')', or a '\' followed by anything but
\* d, w, \, $, ^, +, ?, . (the end of the pattern included).
C6_MalformedElementFails ==
    (pc # "start" /\ MalformedElement(regex_str)) =>
        regex.err # "" /\ regex.patterns = <<>> /\ pc = "done" /\ result = "error"

\* C6's case: the malformed construct follows well-formed elements, and
\* sits in a branch of a group
C6_Witness ==
    /\ pc = "done" /\ result = "error" /\ regex.err # ""
    /\ \E k \in 1..(Len(regex_str) - 1) :
          /\ RegexParse(SubSeq(regex_str, 1, k)).err = ""
          /\ regex_str[k + 1] = "(" /\ HasLater(regex_str, k + 1, ")")
          /\ MalformedElement(From(regex_str, k))

\* The text each element of a compiled pattern was parsed from
RECURSIVE TokenTexts(_)
TokenTexts(s) ==
    IF s = <<>> THEN <<>>
    ELSE LET r == PatternParse(s)
         IN  IF r.err # "" THEN <<>>
             ELSE <<SubSeq(s, 1, Len(s) - Len(r.rest))>> \o TokenTexts(r.rest)

RECURSIVE QuantifiersWrapPrecedingAtom(_, _)
QuantifiersWrapPrecedingAtom(s, patterns) ==
    LET toks == TokenTexts(s) IN
    /\ Len(toks) = Len(patterns)
    /\ \A i \in 1..Len(patterns) :
        LET p == patterns[i]
            tok == toks[i]
        IN  /\ p.tag \in {"OneOrMore", "ZeroOrOne"} =>
                /\ Len(tok) >= 2
                /\ tok[Len(tok)] = (IF p.tag = "OneOrMore" THEN "+" ELSE "?")
                /\ p.inner[1].tag \in Atoms
                /\ PatternParse(SubSeq(tok, 1, Len(tok) - 1)) = ParseOk(<<>>, p.inner[1])
            /\ p.tag \notin {"OneOrMore", "ZeroOrOne"} => p.inner = <<>>
            /\ p.tag = "Alternation" =>
                /\ Len(GroupBranches(tok)) = Len(p.alternatives)
                /\ \A j \in 1..Len(p.alternatives) :
                       QuantifiersWrapPrecedingAtom(GroupBranches(tok)[j], p.alternatives[j])

\* C7: in every compiled Program, at top level and in every alternation
\* branch, the inner element of a OneOrMore or ZeroOrOne is the atom written
\* just before the '+' or '?', and is a Character, Digit, Alphanumeric,
\* PositiveGroup or NegativeGroup.
C7_QuantifierWrapsPrecedingAtom ==
    Compiled => QuantifiersWrapPrecedingAtom(regex_str, regex.patterns)

\* C7's case: a quantified bracket set inside a branch, beside a quantified
\* class
C7_Witness ==
    /\ Compiled
    /\ \E i \in 1..Len(regex.patterns) :
          /\ regex.patterns[i].tag = "Alternation"
          /\ \E j \in 1..Len(regex.patterns[i].alternatives) :
                LET b == regex.patterns[i].alternatives[j]
                IN  b # <<>> /\ b[1] = OneOrMore(PositiveGroup(<<"d">>))
          /\ \E j \in 1..Len(regex.patterns[i].alternatives) :
                LET b == regex.patterns[i].alternatives[j]
                IN  b # <<>> /\ b[1] = OneOrMore(Alphanumeric)

\* The length of the longest prefix of s whose characters all satisfy inner
RECURSIVE MaxRun(_, _)
MaxRun(s, inner) ==
    IF s # <<>> /\ Satisfies(inner, s[1]) THEN 1 + MaxRun(Tail(s), inner) ELSE 0

\* C8: at a OneOrMore, match_here returns true iff the continuation matches
\* after some count k of repetitions, 1 <= k <= the maximal run, and false
\* when there is no such k.
C8_OneOrMoreTriesEveryCount ==
    Matched =>
        \A q \in HereSeqs(regex.patterns) : \A s \in Suffixes(input_line) :
            (q # <<>> /\ q[1].tag = "OneOrMore") =>
                match_here(s, q) =
                    Bool(\E k \in 1..MaxRun(s, q[1].inner[1]) :
                             match_here(From(s, k), Tail(q)) = "true")

\* C9: at an Alternation, match_here returns true iff some branch, followed
\* by the elements after the alternation, matches the unchanged subject, and
\* false when every branch fails.
C9_AlternationTriesEveryBranch ==
    Matched =>
        \A q \in HereSeqs(regex.patterns) : \A s \in Suffixes(input_line) :
            (q # <<>> /\ q[1].tag = "Alternation") =>
                match_here(s, q) =
                    Bool(\E j \in 1..Len(q[1].alternatives) :
                             match_here(s, q[1].alternatives[j] \o Tail(q)) = "true")

\* The big-step result of the call the stack machine is making
BigStep ==
    IF Anchored THEN match_here(input_line, Tail(regex.patterns))
    ELSE LET loop[i \in 0..Len(input_line)] ==
                 LET r == match_here(From(input_line, i), regex.patterns)
                 IN  IF r # "false" THEN r
                     ELSE IF i = Len(input_line) THEN PanicSlice
                     ELSE IF i + 1 = Len(input_line) THEN "false"
                     ELSE loop[i + 1]
         IN  loop[0]

\* The two models of the matcher agree on every call
RunAgreesWithBigStep == Matched => result = BigStep

\* The number of alternations of a sequence of elements
RECURSIVE AltCount(_)
AltCount(patterns) ==
    IF patterns = <<>> THEN 0
    ELSE (IF patterns[1].tag = "Alternation" THEN 1 ELSE 0) + AltCount(Tail(patterns))

\* Every call of match_here made within another has fewer alternations to
\* expand, or as many and fewer elements: no expansion re-expands
NestedCallsDescend ==
    \A i, j \in 1..Len(stack) :
        (/\ i < j
         /\ stack[i].fn = "match_here" /\ stack[j].fn = "match_here"
         /\ \A k \in (i + 1)..(j - 1) : stack[k].fn # "match_here") =>
            \/ AltCount(stack[j].patterns) < AltCount(stack[i].patterns)
            \/ /\ AltCount(stack[j].patterns) = AltCount(stack[i].patterns)
               /\ Len(stack[j].patterns) < Len(stack[i].patterns)

\* C10: matching terminates: every call of the matcher, once made, reaches
\* its end after finitely many steps, with a result or a panic; on the way
\* every nested call of match_here is past an element or an alternation of
\* the call it is made in.
C10_MatchingTerminates ==
    /\ []NestedCallsDescend
    /\ (pc = "running") ~> (pc = "done")

\* C10's case: the matcher is inside the loop of a OneOrMore, inside a
\* branch of an alternation after it
C10_Witness ==
    /\ pc = "running"
    /\ \E i, j \in 1..Len(stack) :
          /\ i < j
          /\ stack[i].fn = "match_one_or_more" /\ stack[i].at = "loop"
          /\ stack[j].fn = "match_alternatives" /\ stack[j].at = "loop"
          /\ stack[Len(stack)].fn = "match_here"

====
